---- MODULE Spec2Model ----
(***************************************************************************)
(* A model of the notebook xgboost_debugger_demo.ipynb: the data           *)
(* preparation cells, the submission of the remote training job, the       *)
(* status-polling cell, and the helper functions that read the debugger    *)
(* trial and plot its tensors.                                             *)
(*                                                                         *)
(* The specifications share the definitions below:                         *)
(*   Spec       the notebook's cells run in order, next to the remote      *)
(*              training job, which advances on its own;                   *)
(*   FairSpec   Spec with the fairness of a running kernel and a running   *)
(*              remote job (for the termination of the polling cell);      *)
(*   DataSpec   the data preparation cells, on every table of the model;   *)
(*   RuleSpec   the fit and polling cells next to the training job and     *)
(*              the rule-evaluation job;                                   *)
(*   SizeSpec   the two cut points of the split, for every row count;      *)
(*   HelperSpec get_data, plot_collection and plot_feature_importance      *)
(*              called with arbitrary arguments on an arbitrary trial.     *)
(***************************************************************************)
EXTENDS Integers, Sequences, FiniteSets, TLC

VARIABLES
    pc,               \* the cell (or the statement of the polling cell) to run next
    error,            \* the exception that stopped the run, "" when none
    csv,              \* the downloaded file bank-additional-full.csv, as a frame
    data,             \* DataFrame read from the CSV file
    model_data,       \* DataFrame after get_dummies / drop
    train_data,       \* the three subsets of the split
    validation_data,
    test_data,
    files,            \* local files written by to_csv: name -> rows
    s3,               \* objects uploaded to the bucket: key -> rows
    submitted,        \* the training jobs submitted by fit(), in order
    jobPhase,         \* SecondaryStatus of the remote training job ("" before fit)
    store,            \* the remote tensor store: tensor name -> saved <<step, value>>
    ruleStatus,       \* RuleEvaluationStatus of the remote rule job ("" when none)
    description,      \* the notebook global `description` ("" before the first query)
    nQueries,         \* describe_training_job calls issued by the polling cell
    nSleeps,          \* time.sleep(15) calls made by the polling cell
    trial,            \* the notebook global `trial`: "" or "created"
    figures,          \* the figures rendered so far, each a sequence of plotted lines
    trialReads,       \* calls of the trial's methods made by the helper functions
    calls,            \* the helper calls made so far: [fn, args, raised]
    returned,         \* what the last get_data call returned
    nrows,            \* SizeSpec: len(model_data)
    cut               \* SizeSpec: the cut points handed to np.split

vars == <<pc, error, csv, data, model_data, train_data, validation_data, test_data,
          files, s3, submitted, jobPhase, store, ruleStatus, description, nQueries,
          nSleeps,
          trial, figures, trialReads, calls, returned, nrows, cut>>

(***************************************************************************)
(* Bounds of the model.                                                    *)
(***************************************************************************)
MaxRows == 4          \* rows of the input table in Spec
MaxLen == 100         \* row counts covered by SizeSpec
MaxSaves == 2         \* save events of the debugger hook
MaxCount == 3         \* nQueries and nSleeps count exactly below this value
MaxCalls == 2         \* helper calls of one HelperSpec run

Min(a, b) == IF a < b THEN a ELSE b

Range(s) == {s[i] : i \in 1..Len(s)}

(***************************************************************************)
(* int(0.7 * n) and int(0.9 * n) in IEEE-754 double arithmetic.            *)
(* 0.7 is the double 0x16666666666666 * 2^-53 and 0.9 is                   *)
(* 0x1CCCCCCCCCCCCD * 2^-53.  Bit sequences are least significant bit      *)
(* first.                                                                  *)
(***************************************************************************)
MantissaBits == 53

Bits07 == [i \in 1..MantissaBits |->
             IF i = MantissaBits THEN 1
             ELSE IF ((i - 1) % 4) \in {1, 2} THEN 1 ELSE 0]

Bits09 == [i \in 1..MantissaBits |->
             IF i = MantissaBits \/ i = 1 THEN 1
             ELSE IF ((i - 1) % 4) \in {2, 3} THEN 1 ELSE 0]

\* The exact product bits * n, as a bit sequence (n < 2^10).
RECURSIVE MulBits(_, _, _, _)
MulBits(bits, n, i, carry) ==
    IF i > Len(bits) + 10 THEN <<>>
    ELSE LET b == IF i <= Len(bits) THEN bits[i] ELSE 0
             t == n * b + carry
         IN  <<t % 2>> \o MulBits(bits, n, i + 1, t \div 2)

\* Index of the highest set bit, 0 for zero.
RECURSIVE BitLen(_, _)
BitLen(bits, i) ==
    IF i = 0 THEN 0 ELSE IF bits[i] = 1 THEN i ELSE BitLen(bits, i - 1)

\* The value of bits[lo..Len(bits)] as an integer.
RECURSIVE BitsValue(_, _)
BitsValue(bits, lo) ==
    IF lo > Len(bits) THEN 0 ELSE bits[lo] + 2 * BitsValue(bits, lo + 1)

\* bits + 1.
RECURSIVE IncBits(_, _)
IncBits(bits, i) ==
    IF i > Len(bits) THEN bits
    ELSE IF bits[i] = 0 THEN [bits EXCEPT ![i] = 1]
    ELSE IncBits([bits EXCEPT ![i] = 0], i + 1)

\* The product rounded to MantissaBits significant bits, ties to even:
\* the double nearest to frac * n, scaled by 2^MantissaBits.
RoundProduct(p) ==
    LET len == BitLen(p, Len(p))
        drop == len - MantissaBits
    IN  IF drop <= 0 THEN p
        ELSE LET half == p[drop]
                 rest == \E j \in 1..(drop - 1) : p[j] = 1
                 odd == p[drop + 1] = 1
                 kept == [j \in 1..Len(p) |-> IF j <= drop THEN 0 ELSE p[j]]
             IN  IF half = 1 /\ (rest \/ odd) THEN IncBits(kept, drop + 1) ELSE kept

\* int(frac * n): the rounded product truncated towards zero.
IntOfProduct(bits, n) ==
    BitsValue(RoundProduct(MulBits(bits, n, 1, 0)), MantissaBits + 1)

\* [int(0.7 * len(model_data)), int(0.9 * len(model_data))]
CutPoints(n) == <<IntOfProduct(Bits07, n), IntOfProduct(Bits09, n)>>

\* len(ary[lo:hi]) for an array of n rows, with Python's slice clamping.
SliceLen(lo, hi, n) ==
    LET l == Min(lo, n)
        h == Min(hi, n)
    IN  IF h > l THEN h - l ELSE 0

(***************************************************************************)
(* DataFrames.  A frame is [columns, rows]: the column labels in order and *)
(* the rows in order, each row [index, cells] with cells a function of the *)
(* column labels.  A label is <<name, value>>: <<"age", "">> is the column *)
(* age, <<"job", "student">> the indicator column job_student that         *)
(* get_dummies makes.                                                      *)
(***************************************************************************)
Col(name) == <<name, "">>

Dummy(name, value) == <<name, value>>

\* The columns of bank-additional-full.csv, in the file's order.
RawColumns ==
    <<"age", "job", "marital", "education", "default", "housing", "loan",
      "contact", "month", "day_of_week", "duration", "campaign", "pdays",
      "previous", "poutcome", "emp.var.rate", "cons.price.idx",
      "cons.conf.idx", "euribor3m", "nr.employed", "y">>

\* The columns read_csv gives dtype object; get_dummies encodes exactly these.
CategoricalColumns ==
    {"job", "marital", "education", "default", "housing", "loan", "contact",
     "month", "day_of_week", "poutcome", "y"}

\* sorted() of the values a categorical column takes in the sample rows.
CategoryOrder ==
    [job |-> <<"admin.", "retired", "services", "student">>,
     marital |-> <<"married", "single">>,
     education |-> <<"basic.4y", "university.degree">>,
     default |-> <<"no", "unknown">>,
     housing |-> <<"no", "yes">>,
     loan |-> <<"no", "yes">>,
     contact |-> <<"cellular", "telephone">>,
     month |-> <<"may", "nov">>,
     day_of_week |-> <<"fri", "mon">>,
     poutcome |-> <<"nonexistent", "success">>,
     y |-> <<"no", "yes">>]

\* Sample contact records, the values in the order of RawColumns (the
\* economic indicators are scaled to integers).
RowKinds ==
    << <<22, "student", "single", "basic.4y", "no", "no", "no", "cellular",
         "may", "mon", 0, 1, 999, 0, "nonexistent", 11, 93, 36, 48, 5191, "no">>,
       <<41, "admin.", "married", "university.degree", "no", "yes", "no",
         "telephone", "nov", "fri", 261, 2, 6, 1, "success", 11, 93, 36, 48,
         5191, "yes">>,
       <<67, "retired", "married", "basic.4y", "unknown", "no", "yes",
         "cellular", "may", "fri", 149, 1, 999, 0, "nonexistent", 11, 93, 36,
         48, 5191, "yes">>,
       <<35, "services", "single", "university.degree", "no", "yes", "no",
         "telephone", "nov", "mon", 999, 3, 3, 2, "success", 11, 93, 36, 48,
         5191, "no">> >>

ColumnIndex(name) == CHOOSE j \in 1..Len(RawColumns) : RawColumns[j] = name

EmptyFrame == [columns |-> <<>>, rows |-> <<>>]

\* The frame read_csv makes of n records, the first of kind `first`:
\* a RangeIndex 0..n-1 and the file's columns.
CsvFrame(n, first) ==
    [columns |-> [j \in 1..Len(RawColumns) |-> Col(RawColumns[j])],
     rows |-> [i \in 1..n |->
        LET kind == RowKinds[((first + i - 2) % Len(RowKinds)) + 1]
        IN  [index |-> i - 1,
             cells |-> [c \in {Col(RawColumns[j]) : j \in 1..Len(RawColumns)} |->
                          kind[ColumnIndex(c[1])]]]]]

\* The CSV files of the model: 1..MaxRows records.
Tables == {CsvFrame(n, first) : n \in 1..MaxRows, first \in 1..Len(RowKinds)}

\* The file that holds each sample record once.
SampleFile == CsvFrame(Len(RowKinds), 1)

HasColumn(frame, label) == label \in Range(frame.columns)

\* frame[label] = values, a new column appended (or an existing one replaced).
SetColumn(frame, label, values) ==
    [columns |-> IF HasColumn(frame, label) THEN frame.columns
                 ELSE Append(frame.columns, label),
     rows |-> [i \in 1..Len(frame.rows) |->
        [index |-> frame.rows[i].index,
         cells |-> [c \in Range(frame.columns) \cup {label} |->
                      IF c = label THEN values[i]
                      ELSE frame.rows[i].cells[c]]]]]

\* np.where(data['pdays'] == 999, 1, 0)
NoPreviousContact(frame) ==
    [i \in 1..Len(frame.rows) |->
        IF frame.rows[i].cells[Col("pdays")] = 999 THEN 1 ELSE 0]

\* Mutant: retired contacts are not counted as not working.
NotWorkingOmitsRetired(frame) ==
    [i \in 1..Len(frame.rows) |->
        IF frame.rows[i].cells[Col("job")] \in {"student", "unemployed"}
        THEN 1 ELSE 0]

\* np.where(np.in1d(data['job'], ['student', 'retired', 'unemployed']), 1, 0)
NotWorking(frame) ==
    [i \in 1..Len(frame.rows) |->
        IF frame.rows[i].cells[Col("job")] \in {"student", "retired", "unemployed"}
        THEN 1 ELSE 0]

\* The indicator labels get_dummies makes of one categorical column: one per
\* value present, in sorted order.
DummyLabels(frame, name) ==
    LET present(v) == \E i \in 1..Len(frame.rows) : frame.rows[i].cells[Col(name)] = v
        order == CategoryOrder[name]
        kept == SelectSeq(order, present)
    IN  [j \in 1..Len(kept) |-> Dummy(name, kept[j])]

RECURSIVE DummyLabelsOfAll(_, _)
DummyLabelsOfAll(frame, cols) ==
    IF cols = <<>> THEN <<>>
    ELSE DummyLabels(frame, Head(cols)[1]) \o DummyLabelsOfAll(frame, Tail(cols))

\* pd.get_dummies(frame): the other columns in order, then the indicators of
\* each categorical column in the order of the columns.
GetDummies(frame) ==
    LET isCat(c) == c[1] \in CategoricalColumns
        isNum(c) == ~isCat(c)
        columns == SelectSeq(frame.columns, isNum)
                     \o DummyLabelsOfAll(frame, SelectSeq(frame.columns, isCat))
    IN  [columns |-> columns,
         rows |-> [i \in 1..Len(frame.rows) |->
            [index |-> frame.rows[i].index,
             cells |-> [c \in Range(columns) |->
                          IF c[2] = "" THEN frame.rows[i].cells[c]
                          ELSE IF frame.rows[i].cells[Col(c[1])] = c[2] THEN 1 ELSE 0]]]]

\* frame.drop(labels, axis=1): a new frame without the labelled columns.
\* pandas raises KeyError when a label is not a column (DropRaises).
DropRaises(frame, labels) == \E l \in labels : ~HasColumn(frame, l)

Drop(frame, labels) ==
    LET keep(c) == c \notin labels
        columns == SelectSeq(frame.columns, keep)
    IN  [columns |-> columns,
         rows |-> [i \in 1..Len(frame.rows) |->
            [index |-> frame.rows[i].index,
             cells |-> [c \in Range(columns) |-> frame.rows[i].cells[c]]]]]

DroppedColumns ==
    {Col("duration"), Col("emp.var.rate"), Col("cons.price.idx"),
     Col("cons.conf.idx"), Col("euribor3m"), Col("nr.employed")}

\* The orders sample(frac=1, random_state=1729) may give n rows.
Orders(n) ==
    {p \in [1..n -> 1..n] : \A i, j \in 1..n : p[i] = p[j] => i = j}

\* frame.sample(frac=1): the rows in the order p, each with its index.
Sample(frame, p) ==
    [columns |-> frame.columns,
     rows |-> [i \in 1..Len(frame.rows) |-> frame.rows[p[i]]]]

\* ary[lo:hi] on the rows, with Python's slice clamping.
Slice(frame, lo, hi) ==
    LET n == Len(frame.rows)
        l == Min(lo, n)
        len == SliceLen(lo, hi, n)
    IN  [columns |-> frame.columns,
         rows |-> [i \in 1..len |-> frame.rows[l + i]]]

\* Mutant: the first section runs one row into the second.
SplitOverlapping(frame, c) ==
    LET n == Len(frame.rows)
    IN  <<Slice(frame, 0, c[1] + 1), Slice(frame, c[1], c[2]), Slice(frame, c[2], n)>>

\* np.split(frame, [c1, c2]): <<train, validation, test>>.
Split(frame, c) ==
    LET n == Len(frame.rows)
    IN  <<Slice(frame, 0, c[1]), Slice(frame, c[1], c[2]), Slice(frame, c[2], n)>>

LabelColumn == Dummy("y", "yes")

OtherLabelColumn == Dummy("y", "no")

\* Mutant: only y_yes is dropped, so y_no stays among the features.
LabelFirstKeepsOther(frame) ==
    LET rest == Drop(frame, {LabelColumn})
        columns == <<LabelColumn>> \o rest.columns
    IN  [columns |-> columns,
         rows |-> [i \in 1..Len(frame.rows) |->
            [index |-> frame.rows[i].index,
             cells |-> [c \in Range(columns) |-> frame.rows[i].cells[c]]]]]

\* pd.concat([frame['y_yes'], frame.drop(['y_no', 'y_yes'], axis=1)], axis=1)
LabelFirst(frame) ==
    LET rest == Drop(frame, {OtherLabelColumn, LabelColumn})
        columns == <<LabelColumn>> \o rest.columns
    IN  [columns |-> columns,
         rows |-> [i \in 1..Len(frame.rows) |->
            [index |-> frame.rows[i].index,
             cells |-> [c \in Range(columns) |-> frame.rows[i].cells[c]]]]]

\* frame['y_yes'] or the drop raises KeyError.
LabelFirstRaises(frame) ==
    ~HasColumn(frame, LabelColumn) \/ DropRaises(frame, {OtherLabelColumn, LabelColumn})

\* frame.to_csv(name, index=False, header=False): the lines of the file, each
\* the values of one row in column order.
ToCsv(frame) ==
    [i \in 1..Len(frame.rows) |->
        [j \in 1..Len(frame.columns) |-> frame.rows[i].cells[frame.columns[j]]]]

(***************************************************************************)
(* Strings.  TLA+ strings are atoms, so every string the helper functions  *)
(* take apart (tensor names, importance types, regular expressions) has    *)
(* its characters listed here.                                             *)
(***************************************************************************)
Spelling ==
    << <<"",
         <<>>>>,
       <<".*",
         <<".", "*">>>>,
       <<"/.*",
         <<"/", ".", "*">>>>,
       <<"DEMO-xgboost-dm",
         <<"D", "E", "M", "O", "-", "x", "g", "b", "o", "o", "s", "t", "-", "d", "m">>>>,
       <<"Gain",
         <<"G", "a", "i", "n">>>>,
       <<"average_shap/f0",
         <<"a", "v", "e", "r", "a", "g", "e", "_", "s", "h", "a", "p", "/",
         "f", "0">>>>,
       <<"average_shap/f1",
         <<"a", "v", "e", "r", "a", "g", "e", "_", "s", "h", "a", "p", "/",
         "f", "1">>>>,
       <<"cover",
         <<"c", "o", "v", "e", "r">>>>,
       <<"feature_importance/",
         <<"f", "e", "a", "t", "u", "r", "e", "_", "i", "m", "p", "o", "r",
         "t", "a", "n", "c", "e", "/">>>>,
       <<"feature_importance/cover/f0",
         <<"f", "e", "a", "t", "u", "r", "e", "_", "i", "m", "p", "o", "r",
         "t", "a", "n", "c", "e", "/", "c", "o", "v", "e", "r", "/", "f",
         "0">>>>,
       <<"feature_importance/gain/f0",
         <<"f", "e", "a", "t", "u", "r", "e", "_", "i", "m", "p", "o", "r",
         "t", "a", "n", "c", "e", "/", "g", "a", "i", "n", "/", "f", "0">>>>,
       <<"feature_importance/total_cover/f0",
         <<"f", "e", "a", "t", "u", "r", "e", "_", "i", "m", "p", "o", "r",
         "t", "a", "n", "c", "e", "/", "t", "o", "t", "a", "l", "_", "c",
         "o", "v", "e", "r", "/", "f", "0">>>>,
       <<"feature_importance/total_gain/f0",
         <<"f", "e", "a", "t", "u", "r", "e", "_", "i", "m", "p", "o", "r",
         "t", "a", "n", "c", "e", "/", "t", "o", "t", "a", "l", "_", "g",
         "a", "i", "n", "/", "f", "0">>>>,
       <<"feature_importance/weight/f0",
         <<"f", "e", "a", "t", "u", "r", "e", "_", "i", "m", "p", "o", "r",
         "t", "a", "n", "c", "e", "/", "w", "e", "i", "g", "h", "t", "/",
         "f", "0">>>>,
       <<"gain",
         <<"g", "a", "i", "n">>>>,
       <<"predictions",
         <<"p", "r", "e", "d", "i", "c", "t", "i", "o", "n", "s">>>>,
       <<"sagemaker",
         <<"s", "a", "g", "e", "m", "a", "k", "e", "r">>>>,
       <<"total",
         <<"t", "o", "t", "a", "l">>>>,
       <<"total_cover",
         <<"t", "o", "t", "a", "l", "_", "c", "o", "v", "e", "r">>>>,
       <<"total_gain",
         <<"t", "o", "t", "a", "l", "_", "g", "a", "i", "n">>>>,
       <<"train",
         <<"t", "r", "a", "i", "n">>>>,
       <<"train-error",
         <<"t", "r", "a", "i", "n", "-", "e", "r", "r", "o", "r">>>>,
       <<"train.csv",
         <<"t", "r", "a", "i", "n", ".", "c", "s", "v">>>>,
       <<"validation",
         <<"v", "a", "l", "i", "d", "a", "t", "i", "o", "n">>>>,
       <<"validation-error",
         <<"v", "a", "l", "i", "d", "a", "t", "i", "o", "n", "-", "e", "r",
         "r", "o", "r">>>>,
       <<"validation.csv",
         <<"v", "a", "l", "i", "d", "a", "t", "i", "o", "n", ".", "c", "s", "v">>>>,
       <<"weight",
         <<"w", "e", "i", "g", "h", "t">>>> >>

\* The characters of each string of the table.
Letters ==
    [str \in {Spelling[k][1] : k \in 1..Len(Spelling)} |->
        Spelling[CHOOSE k \in 1..Len(Spelling) : Spelling[k][1] = str][2]]

Chars(str) == Letters[str]

\* The characters of the model's strings in code point order.
Alphabet ==
    <<"-", ".", "/", "0", "1", "D", "E", "G", "M", "O", "_", "a", "b", "c", "d",
      "e", "f", "g", "h", "i", "k", "l", "m", "n", "o", "p", "r", "s", "t", "u",
      "v", "w", "x">>

\* The rank of each character of the alphabet.
Rank == [ch \in Range(Alphabet) |-> CHOOSE k \in 1..Len(Alphabet) : Alphabet[k] = ch]

Ord(ch) == Rank[ch]

\* a < b for Python strings: the first differing character decides, a proper
\* prefix is smaller.
RECURSIVE CharsLess(_, _)
CharsLess(a, b) ==
    IF b = <<>> THEN FALSE
    ELSE IF a = <<>> THEN TRUE
    ELSE IF Head(a) = Head(b) THEN CharsLess(Tail(a), Tail(b))
    ELSE Ord(Head(a)) < Ord(Head(b))

StrLess(a, b) == CharsLess(Chars(a), Chars(b))

\* sorted(names): the names in ascending order.
RECURSIVE Sorted(_)
Sorted(names) ==
    IF names = {} THEN <<>>
    ELSE LET least == CHOOSE n \in names : \A m \in names \ {n} : StrLess(n, m)
         IN  <<least>> \o Sorted(names \ {least})

(***************************************************************************)
(* Regular expressions: the subset the helpers use (a literal character,   *)
(* ".", and "*" after either).  A pattern is compiled to tokens            *)
(* [ch, any, star]; re.match anchors at the start of the string only.      *)
(***************************************************************************)
RECURSIVE Compile(_)
Compile(cs) ==
    IF cs = <<>> THEN <<>>
    ELSE LET star == Len(cs) >= 2 /\ cs[2] = "*"
             token == [ch |-> cs[1], any |-> cs[1] = ".", star |-> star]
             rest == IF star THEN SubSeq(cs, 3, Len(cs)) ELSE Tail(cs)
         IN  <<token>> \o Compile(rest)

Accepts(token, ch) == IF token.any THEN ch # "\n" ELSE token.ch = ch

RECURSIVE MatchTokens(_, _)
MatchTokens(tokens, cs) ==
    IF tokens = <<>> THEN TRUE
    ELSE LET token == Head(tokens)
         IN  IF token.star
             THEN \/ MatchTokens(Tail(tokens), cs)
                  \/ /\ cs # <<>>
                     /\ Accepts(token, Head(cs))
                     /\ MatchTokens(tokens, Tail(cs))
             ELSE /\ cs # <<>>
                  /\ Accepts(token, Head(cs))
                  /\ MatchTokens(Tail(tokens), Tail(cs))

\* re.match(regex, name) is not None; regex is given by its characters.
ReMatch(regex, name) == MatchTokens(Compile(regex), Chars(name))

(***************************************************************************)
(* The remote training job and the tensors its debugger hook saves.        *)
(***************************************************************************)
SaveInterval == 2

\* The collections the DebuggerHookConfig asks for, with the tensors the
\* XGBoost hook saves in each (one feature, f0, per importance type).
Collections ==
    [metrics |-> {"train-error", "validation-error"},
     predictions |-> {"predictions"},
     feature_importance |->
        {"feature_importance/weight/f0", "feature_importance/gain/f0",
         "feature_importance/cover/f0", "feature_importance/total_gain/f0",
         "feature_importance/total_cover/f0"},
     average_shap |-> {"average_shap/f0", "average_shap/f1"}]

CollectionNames == DOMAIN Collections

HookTensors == UNION {Collections[c] : c \in CollectionNames}

\* The value the hook saves for a tensor at a step.
SavedValue(name, step) == (Len(Chars(name)) + step) % 5

\* The store after k save events: every tensor at steps 0, SaveInterval, ...
StoreAfter(k) ==
    IF k = 0 THEN <<>>
    ELSE [n \in HookTensors |->
            [i \in 1..k |-> [step |-> (i - 1) * SaveInterval,
                             value |-> SavedValue(n, (i - 1) * SaveInterval)]]]

Saves(st) == IF DOMAIN st = {} THEN 0 ELSE Len(st[CHOOSE n \in DOMAIN st : TRUE])

InProgressPhases == {"Starting", "Downloading", "Training", "Uploading"}

\* TrainingJobStatus of a job whose SecondaryStatus is `phase`.
PrimaryStatus(phase) == IF phase \in InProgressPhases THEN "InProgress" ELSE phase

NoDescription == [TrainingJobStatus |-> "", SecondaryStatus |-> ""]

\* client.describe_training_job(TrainingJobName=job_name)
Describe(phase) ==
    [TrainingJobStatus |-> PrimaryStatus(phase), SecondaryStatus |-> phase]

NextPhase(phase) ==
    CASE phase = "Starting" -> "Downloading"
      [] phase = "Downloading" -> "Training"
      [] phase = "Training" -> "Uploading"
      [] phase = "Uploading" -> "Completed"

(***************************************************************************)
(* The trial's read methods and the helper functions of the notebook.      *)
(***************************************************************************)
\* trial.collection(collection_name).tensor_names
CollectionTensorNames(st, collection_name) ==
    Collections[collection_name] \cap DOMAIN st

\* tensor.steps()
TensorSteps(st, tname) == [i \in 1..Len(st[tname]) |-> st[tname][i].step]

\* Mutant: the value of the first saved step, whatever the step asked for.
TensorValueOfFirstStep(st, tname, s) == st[tname][1].value

\* tensor.value(s)
TensorValue(st, tname, s) ==
    (CHOOSE r \in Range(st[tname]) : r.step = s).value

\* trial.tensor(tname) raises when the trial has no such tensor.
GetDataRaises(st, tname) == tname \notin DOMAIN st

\* get_data(trial, tname): <<steps, vals>>
GetData(st, tname) ==
    LET steps == TensorSteps(st, tname)
        vals == [i \in 1..Len(steps) |-> TensorValue(st, tname, steps[i])]
    IN  <<steps, vals>>

\* The trial methods get_data calls: tensor(), steps(), value() per step.
GetDataReads(st, tname) == 2 + Len(st[tname])

\* Mutant: every tensor of the collection is plotted, whatever the regex.
PlottedNamesUnfiltered(st, collection_name, regex) ==
    Sorted(CollectionTensorNames(st, collection_name))

\* The tensors plot_collection plots, in the order it plots them.
PlottedNames(st, collection_name, regex) ==
    LET matches(n) == ReMatch(regex, n)
    IN  SelectSeq(Sorted(CollectionTensorNames(st, collection_name)), matches)

\* plot_collection(trial, collection_name, regex): the figure it renders,
\* one line per plotted tensor.
PlotCollection(st, collection_name, regex) ==
    LET names == PlottedNames(st, collection_name, regex)
    IN  [xlabel |-> "Iteration",
         lines |-> [j \in 1..Len(names) |->
                      LET d == GetData(st, names[j])
                      IN  [label |-> names[j], steps |-> d[1], data |-> d[2]]]]

RECURSIVE SumReads(_, _)
SumReads(st, names) ==
    IF names = <<>> THEN 0
    ELSE GetDataReads(st, Head(names)) + SumReads(st, Tail(names))

\* The trial methods plot_collection calls: collection(), then get_data per
\* plotted tensor.
PlotCollectionReads(st, collection_name, regex) ==
    1 + SumReads(st, PlottedNames(st, collection_name, regex))

SUPPORTED_IMPORTANCE_TYPES == {"weight", "gain", "cover", "total_gain", "total_cover"}

\* Mutant: the check done as a substring test on the joined names, which
\* lets "total" and "" through.
PlotFeatureImportanceRaisesSubstring(importance_type) ==
    importance_type \notin SUPPORTED_IMPORTANCE_TYPES \cup {"total", ""}

\* if importance_type not in SUPPORTED_IMPORTANCE_TYPES: raise ValueError
PlotFeatureImportanceRaises(importance_type) ==
    importance_type \notin SUPPORTED_IMPORTANCE_TYPES

\* Mutant: the regex does not start with the collection's name.
ImportanceRegexUnanchored(importance_type) ==
    Chars(".*") \o Chars(importance_type) \o Chars("/.*")

\* f"feature_importance/{importance_type}/.*"
ImportanceRegex(importance_type) ==
    Chars("feature_importance/") \o Chars(importance_type) \o Chars("/.*")

(***************************************************************************)
(* The initial state: a fresh kernel, no job, an empty bucket.             *)
(***************************************************************************)
Globals ==
    /\ error = ""
    /\ data = EmptyFrame
    /\ model_data = EmptyFrame
    /\ train_data = EmptyFrame
    /\ validation_data = EmptyFrame
    /\ test_data = EmptyFrame
    /\ files = <<>>
    /\ s3 = <<>>
    /\ submitted = <<>>
    /\ jobPhase = ""
    /\ store = <<>>
    /\ ruleStatus = ""
    /\ description = NoDescription
    /\ nQueries = 0
    /\ nSleeps = 0
    /\ trial = ""
    /\ figures = <<>>
    /\ trialReads = 0
    /\ calls = <<>>
    /\ returned = <<>>
    /\ cut = <<>>

Fresh == pc = "read_csv" /\ Globals

\* Spec: the sample file has been downloaded.
Init == Fresh /\ csv = SampleFile /\ nrows = 0

\* DataSpec: any of the model's files has been downloaded.
DataInit == Fresh /\ csv \in Tables /\ nrows = 0

frames == <<csv, data, model_data, train_data, validation_data, test_data>>

subsets == <<train_data, validation_data, test_data>>

sizing == <<nrows, cut>>

storage == <<files, s3>>

remote == <<submitted, jobPhase, store, ruleStatus>>

polling == <<description, nQueries, nSleeps>>

analysis == <<trial, figures, trialReads, calls, returned>>

\* An uncaught exception ends the run of the cells.
Raise(exception) ==
    /\ error' = exception
    /\ pc' = "halted"

(***************************************************************************)
(* Data preparation cells.                                                 *)
(***************************************************************************)
\* data = pd.read_csv('./bank-additional/bank-additional-full.csv')
ReadCsv ==
    /\ pc = "read_csv"
    /\ data' = csv
    /\ pc' = "transform"
    /\ UNCHANGED <<error, csv, model_data, subsets, sizing, storage, remote, polling, analysis>>

\* The two indicator columns, then get_dummies.
Transform ==
    /\ pc = "transform"
    /\ data' = LET contacted == SetColumn(data, Col("no_previous_contact"),
                                          NoPreviousContact(data))
                IN  SetColumn(contacted, Col("not_working"), NotWorking(contacted))
    /\ model_data' = GetDummies(data')
    /\ pc' = "drop"
    /\ UNCHANGED <<error, csv, subsets, sizing, storage, remote, polling, analysis>>

\* model_data = model_data.drop([...], axis=1)
DropColumns ==
    /\ pc = "drop"
    /\ IF DropRaises(model_data, DroppedColumns)
       THEN Raise("KeyError") /\ UNCHANGED model_data
       ELSE /\ model_data' = Drop(model_data, DroppedColumns)
            /\ pc' = "split"
            /\ UNCHANGED error
    /\ UNCHANGED <<csv, data, subsets, sizing, storage, remote, polling, analysis>>

\* train_data, validation_data, test_data = np.split(model_data.sample(...), [...])
SplitData ==
    /\ pc = "split"
    /\ \E p \in Orders(Len(model_data.rows)) :
          LET parts == Split(Sample(model_data, p), CutPoints(Len(model_data.rows)))
          IN  /\ train_data' = parts[1]
              /\ validation_data' = parts[2]
              /\ test_data' = parts[3]
    /\ nrows' = Len(model_data.rows)
    /\ cut' = CutPoints(Len(model_data.rows))
    /\ pc' = "to_csv"
    /\ UNCHANGED <<error, csv, data, model_data, storage, remote, polling, analysis>>

\* Mutant: the drops are made in place (inplace=True) on the subsets.
WriteCsvInPlace ==
    /\ pc = "to_csv"
    /\ ~LabelFirstRaises(train_data)
    /\ files' = ("train.csv" :> ToCsv(LabelFirst(train_data)))
                 @@ ("validation.csv" :> ToCsv(LabelFirst(validation_data)))
    /\ train_data' = Drop(train_data, {OtherLabelColumn, LabelColumn})
    /\ validation_data' = Drop(validation_data, {OtherLabelColumn, LabelColumn})
    /\ pc' = "upload"
    /\ UNCHANGED <<error, csv, data, model_data, test_data, sizing, s3, remote,
                   polling, analysis>>

\* The two to_csv statements.  Both subsets have the same columns, so the
\* first statement raises KeyError whenever the second would.
WriteCsv ==
    /\ pc = "to_csv"
    /\ IF LabelFirstRaises(train_data)
       THEN Raise("KeyError") /\ UNCHANGED files
       ELSE /\ files' = ("train.csv" :> ToCsv(LabelFirst(train_data)))
                        @@ ("validation.csv" :> ToCsv(LabelFirst(validation_data)))
            /\ pc' = "upload"
            /\ UNCHANGED error
    /\ UNCHANGED <<frames, sizing, s3, remote, polling, analysis>>

\* os.path.join(prefix, 'train/train.csv'), by path segment.
TrainKey == <<"sagemaker", "DEMO-xgboost-dm", "train", "train.csv">>

\* os.path.join(prefix, 'validation/validation.csv')
ValidationKey == <<"sagemaker", "DEMO-xgboost-dm", "validation", "validation.csv">>

\* The path made of the segments: their characters, joined with "/".
RECURSIVE JoinPath(_)
JoinPath(segments) ==
    IF segments = <<>> THEN <<>>
    ELSE IF Len(segments) = 1 THEN Chars(segments[1])
    ELSE Chars(Head(segments)) \o <<"/">> \o JoinPath(Tail(segments))

\* The two upload_file statements.
Upload ==
    /\ pc = "upload"
    /\ s3' = (TrainKey :> files["train.csv"])
             @@ (ValidationKey :> files["validation.csv"])
    /\ pc' = "fit"
    /\ UNCHANGED <<error, frames, sizing, files, remote, polling, analysis>>

\* An upload fails: the first one, or the second one after the first is done.
UploadFails ==
    /\ pc = "upload"
    /\ \/ UNCHANGED s3
       \/ s3' = (TrainKey :> files["train.csv"])
    /\ Raise("S3UploadFailedError")
    /\ UNCHANGED <<frames, sizing, files, remote, polling, analysis>>

(***************************************************************************)
(* Training: one fit(wait=False), then the polling cell.                   *)
(***************************************************************************)
\* Mutant: the train channel reads the whole prefix.
TrainChannelWholePrefix == <<"sagemaker", "DEMO-xgboost-dm">>

\* s3_data of s3_input_train: 's3://{}/{}/train', by path segment.
TrainChannel == <<"sagemaker", "DEMO-xgboost-dm", "train">>

\* s3_data of s3_input_validation: 's3://{}/{}/validation/' (a trailing slash).
ValidationChannel == <<"sagemaker", "DEMO-xgboost-dm", "validation", "">>

\* xgboost_estimator.fit({"train": ..., "validation": ...}, wait=False)
Fit ==
    /\ pc = "fit"
    /\ submitted' = Append(submitted,
                           [train |-> TrainChannel, validation |-> ValidationChannel])
    /\ jobPhase' = "Starting"
    /\ pc' = "poll_first"
    /\ UNCHANGED <<error, frames, sizing, storage, store, ruleStatus, polling, analysis>>

FitFails ==
    /\ pc = "fit"
    /\ Raise("ClientError")
    /\ UNCHANGED <<frames, sizing, storage, remote, polling, analysis>>

\* description = client.describe_training_job(...) and the two prints.
PollFirst ==
    /\ pc = "poll_first"
    /\ description' = Describe(jobPhase)
    /\ nQueries' = Min(nQueries + 1, MaxCount)
    /\ pc' = "poll_if"
    /\ UNCHANGED <<error, frames, sizing, storage, remote, nSleeps, analysis>>

\* Mutant: the loop body runs once before any test (a do-while without the if).
PollIfBodyFirst ==
    /\ pc = "poll_if"
    /\ pc' = "poll_query"
    /\ UNCHANGED <<error, frames, sizing, storage, remote, polling, analysis>>

\* if description['TrainingJobStatus'] != 'Completed':
PollIf ==
    /\ pc = "poll_if"
    /\ pc' = IF description.TrainingJobStatus # "Completed"
             THEN "poll_while" ELSE "create_trial"
    /\ UNCHANGED <<error, frames, sizing, storage, remote, polling, analysis>>

\* while description['SecondaryStatus'] not in ['Training', 'Completed']:
PollWhile ==
    /\ pc = "poll_while"
    /\ pc' = IF description.SecondaryStatus \notin {"Training", "Completed"}
             THEN "poll_query" ELSE "create_trial"
    /\ UNCHANGED <<error, frames, sizing, storage, remote, polling, analysis>>

\* Mutant: a failed job is submitted again from inside the loop.
PollQueryRetrying ==
    /\ pc = "poll_query"
    /\ description' = Describe(jobPhase)
    /\ nQueries' = Min(nQueries + 1, MaxCount)
    /\ IF jobPhase = "Failed" /\ Len(submitted) < MaxCount
       THEN /\ submitted' = Append(submitted,
                    [train |-> TrainChannel, validation |-> ValidationChannel])
            /\ jobPhase' = "Starting"
       ELSE UNCHANGED <<submitted, jobPhase>>
    /\ pc' = "poll_sleep"
    /\ UNCHANGED <<error, frames, sizing, storage, store, ruleStatus, nSleeps, analysis>>

\* The query of the loop body, with its print.
PollQuery ==
    /\ pc = "poll_query"
    /\ description' = Describe(jobPhase)
    /\ nQueries' = Min(nQueries + 1, MaxCount)
    /\ pc' = "poll_sleep"
    /\ UNCHANGED <<error, frames, sizing, storage, remote, nSleeps, analysis>>

\* Mutant: the loop sleeps twice after each query.
PollSleepTwice ==
    /\ pc = "poll_sleep"
    /\ nSleeps' = Min(nSleeps + 2, MaxCount)
    /\ pc' = "poll_while"
    /\ UNCHANGED <<error, frames, sizing, storage, remote, description, nQueries, analysis>>

\* time.sleep(15)
PollSleep ==
    /\ pc = "poll_sleep"
    /\ nSleeps' = Min(nSleeps + 1, MaxCount)
    /\ pc' = "poll_while"
    /\ UNCHANGED <<error, frames, sizing, storage, remote, description, nQueries, analysis>>

\* Mutant: a failed query of the loop is caught and tried again after the sleep.
DescribeFailsRetried ==
    /\ pc \in {"poll_first", "poll_query", "create_trial"}
    /\ error' = "ClientError"
    /\ pc' = IF pc = "poll_query" THEN "poll_sleep" ELSE "halted"
    /\ UNCHANGED <<frames, sizing, storage, remote, polling, analysis>>

\* describe_training_job raises (network, service error): nothing catches it.
DescribeFails ==
    /\ pc \in {"poll_first", "poll_query", "create_trial"}
    /\ Raise("ClientError")
    /\ UNCHANGED <<frames, sizing, storage, remote, polling, analysis>>

(***************************************************************************)
(* Analysis cells.                                                         *)
(***************************************************************************)
\* description = client.describe_training_job(...); trial = create_trial(...)
CreateTrial ==
    /\ pc = "create_trial"
    /\ description' = Describe(jobPhase)
    /\ trial' = "created"
    /\ pc' = "plot_metrics"
    /\ UNCHANGED <<error, frames, sizing, storage, remote, nQueries, nSleeps,
                   figures, trialReads, calls, returned>>

\* A call plot_collection(trial, collection_name, regex): a figure is made,
\* the matching tensors are read and plotted.
PlotCollectionCall(collection_name, regex) ==
    /\ figures' = Append(figures, PlotCollection(store, collection_name, Chars(regex)))
    /\ trialReads' = trialReads + PlotCollectionReads(store, collection_name, Chars(regex))
    /\ calls' = Append(calls, [fn |-> "plot_collection",
                               args |-> <<collection_name, regex>>, raised |-> ""])

\* A call plot_feature_importance(trial, importance_type).
PlotFeatureImportanceCall(importance_type) ==
    IF PlotFeatureImportanceRaises(importance_type)
    THEN /\ calls' = Append(calls, [fn |-> "plot_feature_importance",
                                    args |-> <<importance_type>>,
                                    raised |-> "ValueError"])
         /\ UNCHANGED <<figures, trialReads>>
    ELSE /\ figures' = Append(figures,
                PlotCollection(store, "feature_importance", ImportanceRegex(importance_type)))
         /\ trialReads' = trialReads
                + PlotCollectionReads(store, "feature_importance", ImportanceRegex(importance_type))
         /\ calls' = Append(calls, [fn |-> "plot_feature_importance",
                                    args |-> <<importance_type>>, raised |-> ""])

\* A call get_data(trial, tname).
GetDataCall(tname) ==
    IF GetDataRaises(store, tname)
    THEN /\ calls' = Append(calls, [fn |-> "get_data", args |-> <<tname>>,
                                    raised |-> "TensorUnavailable"])
         /\ trialReads' = trialReads + 1
         /\ UNCHANGED <<figures, returned>>
    ELSE /\ calls' = Append(calls, [fn |-> "get_data", args |-> <<tname>>, raised |-> ""])
         /\ trialReads' = trialReads + GetDataReads(store, tname)
         /\ returned' = GetData(store, tname)
         /\ UNCHANGED figures

\* plot_collection(trial, "metrics")
PlotMetrics ==
    /\ pc = "plot_metrics"
    /\ PlotCollectionCall("metrics", ".*")
    /\ pc' = "plot_importance"
    /\ UNCHANGED <<error, frames, sizing, storage, remote, polling, trial, returned>>

\* plot_feature_importance(trial)
PlotImportance ==
    /\ pc = "plot_importance"
    /\ PlotFeatureImportanceCall("weight")
    /\ pc' = "plot_cover"
    /\ UNCHANGED <<error, frames, sizing, storage, remote, polling, trial, returned>>

\* plot_feature_importance(trial, importance_type="cover")
PlotCover ==
    /\ pc = "plot_cover"
    /\ PlotFeatureImportanceCall("cover")
    /\ pc' = "plot_shap"
    /\ UNCHANGED <<error, frames, sizing, storage, remote, polling, trial, returned>>

\* plot_collection(trial, "average_shap")
PlotShap ==
    /\ pc = "plot_shap"
    /\ PlotCollectionCall("average_shap", ".*")
    /\ pc' = "done"
    /\ UNCHANGED <<error, frames, sizing, storage, remote, polling, trial, returned>>

(***************************************************************************)
(* The remote training job, which runs on the platform next to the cells.  *)
(***************************************************************************)
local == <<pc, error, frames, sizing, storage, polling, analysis>>

\* The job moves to its next phase.
JobAdvance ==
    /\ jobPhase \in InProgressPhases
    /\ jobPhase' = NextPhase(jobPhase)
    /\ UNCHANGED <<local, submitted, store, ruleStatus>>

\* The debugger hook saves the next step of every tensor.
JobSave ==
    /\ jobPhase = "Training"
    /\ Saves(store) < MaxSaves
    /\ store' = StoreAfter(Saves(store) + 1)
    /\ UNCHANGED <<local, submitted, jobPhase, ruleStatus>>

\* The job fails (bad input, out of memory, ...).
JobFail ==
    /\ jobPhase \in InProgressPhases
    /\ jobPhase' = "Failed"
    /\ UNCHANGED <<local, submitted, store, ruleStatus>>

\* The job is stopped from outside the notebook, or runs past max_run.
JobStop ==
    /\ jobPhase \in InProgressPhases
    /\ jobPhase' = "Stopped"
    /\ UNCHANGED <<local, submitted, store, ruleStatus>>

Cell ==
    \/ ReadCsv
    \/ Transform
    \/ DropColumns
    \/ SplitData
    \/ WriteCsv
    \/ Upload
    \/ UploadFails
    \/ Fit
    \/ FitFails
    \/ PollFirst
    \/ PollIf
    \/ PollWhile
    \/ PollQuery
    \/ PollSleep
    \/ DescribeFails
    \/ CreateTrial
    \/ PlotMetrics
    \/ PlotImportance
    \/ PlotCover
    \/ PlotShap

Job ==
    \/ JobAdvance
    \/ JobSave
    \/ JobFail
    \/ JobStop

Next == Cell \/ Job

\* The data preparation cells alone.
DataNext ==
    \/ ReadCsv
    \/ Transform
    \/ DropColumns
    \/ SplitData
    \/ WriteCsv
    \/ Upload
    \/ UploadFails

Spec == Init /\ [][Next]_vars

DataSpec == DataInit /\ [][DataNext]_vars

\* The statements of the polling cell.
Poll ==
    \/ PollFirst
    \/ PollIf
    \/ PollWhile
    \/ PollQuery
    \/ PollSleep

\* The kernel runs the next statement of the polling cell, and the platform
\* moves the job on (max_run bounds its run time).
FairSpec == Spec /\ WF_vars(Poll) /\ WF_vars(JobAdvance)

(***************************************************************************)
(* RuleSpec: the fit and polling cells next to the training job and the    *)
(* rule-evaluation job the estimator's `rules` ask for.                    *)
(***************************************************************************)
\* RuleEvaluationStatus values of a rule job that has ended.
RuleEnded == {"NoIssuesFound", "IssuesFound", "Error", "Stopped"}

\* "After your training job is started, Amazon SageMaker starts a
\* rule-execution job to run the LossNotDecreasing rule."
RuleStart ==
    /\ ruleStatus = ""
    /\ jobPhase \in {"Training", "Uploading", "Completed"}
    /\ ruleStatus' = "InProgress"
    /\ UNCHANGED <<local, submitted, jobPhase, store>>

\* The rule job ends: loss_not_decreasing has evaluated the saved metrics.
RuleEnd ==
    /\ ruleStatus = "InProgress"
    /\ ruleStatus' \in RuleEnded
    /\ UNCHANGED <<local, submitted, jobPhase, store>>

\* The data is uploaded and the fit cell is the next to run.
RuleInit ==
    /\ Globals
    /\ csv = EmptyFrame
    /\ nrows = 0
    /\ pc = "fit"

RuleNext ==
    \/ Fit
    \/ FitFails
    \/ Poll
    \/ DescribeFails
    \/ CreateTrial
    \/ Job
    \/ RuleStart
    \/ RuleEnd

RuleSpec == RuleInit /\ [][RuleNext]_vars

(***************************************************************************)
(* SizeSpec: the cut points np.split is given, for every row count.        *)
(***************************************************************************)
SizeInit ==
    /\ Fresh
    /\ csv = EmptyFrame
    /\ nrows \in 0..MaxLen

\* [int(0.7 * len(model_data)), int(0.9 * len(model_data))]
ComputeCut ==
    /\ cut = <<>>
    /\ cut' = CutPoints(nrows)
    /\ UNCHANGED <<pc, error, frames, nrows, storage, remote, polling, analysis>>

SizeNext == ComputeCut

SizeSpec == SizeInit /\ [][SizeNext]_vars

(***************************************************************************)
(* HelperSpec: the helper functions called from the session, in any order  *)
(* and with any argument, on the trial of a job that may still be saving.  *)
(***************************************************************************)
\* Arguments tried for importance_type: the supported ones and others.
ImportanceArgs == SUPPORTED_IMPORTANCE_TYPES \cup {"total", "Gain", ""}

\* Arguments tried for regex.
RegexArgs == {".*", "train", "average_shap/f1"}

\* Arguments tried for (collection_name, regex): the default regex with every
\* collection, the others with a collection they select from and one they
\* select nothing from.
PlotArgs ==
    {a \in CollectionNames \X RegexArgs :
        \/ a[2] = ".*"
        \/ a \in {<<"metrics", "train">>, <<"feature_importance", "train">>,
                  <<"average_shap", "average_shap/f1">>}}

\* Arguments tried for tname: a tensor of three of the collections.
TensorArgs == {"train-error", "feature_importance/gain/f0", "average_shap/f1"}

HelperInit ==
    /\ pc = "helpers"
    /\ error = ""
    /\ csv = EmptyFrame
    /\ data = EmptyFrame
    /\ model_data = EmptyFrame
    /\ train_data = EmptyFrame
    /\ validation_data = EmptyFrame
    /\ test_data = EmptyFrame
    /\ files = <<>>
    /\ s3 = <<>>
    /\ submitted = <<[train |-> TrainChannel, validation |-> ValidationChannel]>>
    /\ jobPhase \in {"Training", "Completed"}
    /\ \E k \in 0..MaxSaves : store = StoreAfter(k)
    /\ ruleStatus = "InProgress"
    /\ description = Describe(jobPhase)
    /\ nQueries = 1
    /\ nSleeps = 0
    /\ trial = "created"
    /\ figures = <<>>
    /\ trialReads = 0
    /\ calls = <<>>
    /\ returned = <<>>
    /\ nrows = 0
    /\ cut = <<>>

session == <<pc, error, frames, sizing, storage, remote, polling, trial>>

\* Mutant: reading a tensor removes it from the trial.
CallGetDataConsuming ==
    /\ Len(calls) < MaxCalls
    /\ \E tname \in TensorArgs :
          /\ GetDataCall(tname)
          /\ store' = [n \in DOMAIN store \ {tname} |-> store[n]]
    /\ UNCHANGED <<pc, error, frames, sizing, storage, submitted, jobPhase, ruleStatus,
                   polling, trial>>

CallGetData ==
    /\ Len(calls) < MaxCalls
    /\ \E tname \in TensorArgs : GetDataCall(tname)
    /\ UNCHANGED session

CallPlotCollection ==
    /\ Len(calls) < MaxCalls
    /\ \E a \in PlotArgs : PlotCollectionCall(a[1], a[2])
    /\ UNCHANGED <<session, returned>>

CallPlotFeatureImportance ==
    /\ Len(calls) < MaxCalls
    /\ \E importance_type \in ImportanceArgs :
          PlotFeatureImportanceCall(importance_type)
    /\ UNCHANGED <<session, returned>>

HelperNext ==
    \/ CallGetData
    \/ CallPlotCollection
    \/ CallPlotFeatureImportance
    \/ JobSave

HelperSpec == HelperInit /\ [][HelperNext]_vars

(***************************************************************************)
(* The claims.                                                             *)
(***************************************************************************)
PollStatements == {"poll_first", "poll_if", "poll_while", "poll_query", "poll_sleep"}

AfterFit ==
    PollStatements \cup {"create_trial", "plot_metrics", "plot_importance",
                         "plot_cover", "plot_shap", "done"}

\* C1 (HelperSpec): a call of plot_feature_importance with an importance type
\* outside {weight, gain, cover, total_gain, total_cover} raises ValueError and
\* renders nothing: no figure is made, no method of the trial is called, and
\* the call log gains this one call only (plot_collection is not invoked).
InvalidTypeRejected ==
    [][(/\ Len(calls') > Len(calls)
        /\ calls'[Len(calls) + 1].fn = "plot_feature_importance"
        /\ calls'[Len(calls) + 1].args[1]
              \notin {"weight", "gain", "cover", "total_gain", "total_cover"})
       => (/\ calls'[Len(calls) + 1].raised = "ValueError"
           /\ Len(calls') = Len(calls) + 1
           /\ figures' = figures
           /\ trialReads' = trialReads)]_vars

\* C1 witness: an unsupported type was passed while the trial held tensors
\* of the feature_importance collection, and the call raised.
InvalidTypeWitness ==
    /\ CollectionTensorNames(store, "feature_importance") # {}
    /\ \E i \in 1..Len(calls) :
          /\ calls[i].fn = "plot_feature_importance"
          /\ calls[i].args[1] = "total"
          /\ calls[i].raised = "ValueError"

\* C2 (Spec), as claimed: when the polling cell has finished, the status it
\* last observed is a terminal one.
PollEndsTerminal ==
    pc = "create_trial"
        => description.TrainingJobStatus \in {"Completed", "Failed", "Stopped"}

\* C3 (FairSpec), as claimed: once the job is Completed, Failed or Stopped, the
\* polling cell eventually finishes (or a status query raised).
PollTerminates ==
    (jobPhase \in {"Completed", "Failed", "Stopped"}) ~> (pc \notin PollStatements)

\* C4 (DataSpec): after the split the three subsets partition the rows of the
\* derived table: every row of model_data is in exactly one subset, once and
\* unchanged, no other row is in any subset, and the three row counts sum to
\* the row count of model_data.
RowsPartitioned ==
    cut # <<>> =>
        LET idx(frame) == {frame.rows[i].index : i \in 1..Len(frame.rows)}
            intact(frame) ==
                /\ Cardinality(idx(frame)) = Len(frame.rows)
                /\ \A i \in 1..Len(frame.rows) :
                      \E k \in 1..Len(model_data.rows) :
                          model_data.rows[k] = frame.rows[i]
        IN  /\ Len(train_data.rows) + Len(validation_data.rows) + Len(test_data.rows)
                  = Len(model_data.rows)
            /\ idx(train_data) \cap idx(validation_data) = {}
            /\ idx(train_data) \cap idx(test_data) = {}
            /\ idx(validation_data) \cap idx(test_data) = {}
            /\ idx(train_data) \cup idx(validation_data) \cup idx(test_data)
                  = idx(model_data)
            /\ intact(train_data)
            /\ intact(validation_data)
            /\ intact(test_data)

\* C4 witness: a split that left no subset empty.
RowsPartitionedWitness ==
    /\ cut # <<>>
    /\ train_data.rows # <<>>
    /\ validation_data.rows # <<>>
    /\ test_data.rows # <<>>

\* C5 (SizeSpec), as claimed: the cut points are floor(0.7 N) and floor(0.9 N),
\* 0 <= floor(0.7 N) <= floor(0.9 N) <= N, and each subset's size is less than
\* one row away from 70%, 20% and 10% of N.
CutsAreFloors ==
    cut # <<>> =>
        LET sizes == <<SliceLen(0, cut[1], nrows), SliceLen(cut[1], cut[2], nrows),
                       SliceLen(cut[2], nrows, nrows)>>
            near(size, tenths) ==
                /\ 10 * size - tenths * nrows < 10
                /\ tenths * nrows - 10 * size < 10
        IN  /\ cut[1] = (7 * nrows) \div 10
            /\ cut[2] = (9 * nrows) \div 10
            /\ 0 <= cut[1] /\ cut[1] <= cut[2] /\ cut[2] <= nrows
            /\ near(sizes[1], 7)
            /\ near(sizes[2], 2)
            /\ near(sizes[3], 1)

\* C6 (Spec), as claimed: whenever the trial exists, the training job has
\* finished with status Completed.
AnalysisAfterTraining ==
    trial = "created" => jobPhase = "Completed"

\* C7 (DataSpec): the only files written are train.csv and validation.csv and
\* the only objects uploaded are their two keys (both are there once the
\* upload cell is done); each file has one line per row of its subset and
\* no other line (no header), and each line is the row's y_yes value followed
\* by the row's values in all columns other than y_yes and y_no, in column
\* order; each uploaded object is its file.
FilesLabelFirst ==
    LET isFeature(c) == c \notin {<<"y", "yes">>, <<"y", "no">>}
        expected(frame) ==
            LET features == SelectSeq(frame.columns, isFeature)
            IN  [i \in 1..Len(frame.rows) |->
                    <<frame.rows[i].cells[<<"y", "yes">>]>>
                        \o [j \in 1..Len(features) |-> frame.rows[i].cells[features[j]]]]
    IN  /\ DOMAIN files \subseteq {"train.csv", "validation.csv"}
        /\ DOMAIN s3 \subseteq {TrainKey, ValidationKey}
        /\ pc = "fit" => /\ DOMAIN files = {"train.csv", "validation.csv"}
                         /\ DOMAIN s3 = {TrainKey, ValidationKey}
        /\ "train.csv" \in DOMAIN files => files["train.csv"] = expected(train_data)
        /\ "validation.csv" \in DOMAIN files
              => files["validation.csv"] = expected(validation_data)
        /\ TrainKey \in DOMAIN s3 => s3[TrainKey] = files["train.csv"]
        /\ ValidationKey \in DOMAIN s3 => s3[ValidationKey] = files["validation.csv"]

\* C7 witness: both files uploaded, each with at least one line, while the
\* test subset holds a row too.
FilesLabelFirstWitness ==
    /\ pc = "fit"
    /\ DOMAIN s3 = {TrainKey, ValidationKey}
    /\ s3[TrainKey] # <<>>
    /\ s3[ValidationKey] # <<>>
    /\ test_data.rows # <<>>

\* C8 (HelperSpec): no call of get_data, plot_collection or
\* plot_feature_importance, with valid or invalid arguments, changes the
\* trial's tensors, steps or values.
TrialReadOnly ==
    [][calls' # calls => store' = store]_vars

\* C8 witness: the trial holds tensors, and the calls made include a
\* rejected plot_feature_importance and a plot that drew lines.
TrialReadOnlyWitness ==
    /\ DOMAIN store # {}
    /\ \E i \in 1..Len(calls) : calls[i].raised = "ValueError"
    /\ \E i \in 1..Len(figures) : figures[i].lines # <<>>

\* C9 (Spec): once the split is made, no step changes train_data,
\* validation_data or test_data, and after the files are written the subsets
\* still have their y_yes and y_no columns.
SubsetsImmutable ==
    /\ [][cut # <<>> => /\ train_data' = train_data
                        /\ validation_data' = validation_data
                        /\ test_data' = test_data]_vars
    /\ [](DOMAIN files # {} =>
            /\ {<<"y", "yes">>, <<"y", "no">>} \subseteq Range(train_data.columns)
            /\ {<<"y", "yes">>, <<"y", "no">>} \subseteq Range(validation_data.columns))

\* C9 witness: the run reached its last cell with the files written.
SubsetsImmutableWitness ==
    /\ pc = "done"
    /\ DOMAIN files = {"train.csv", "validation.csv"}
    /\ train_data.rows # <<>>
    /\ figures # <<>>

\* C10 (Spec): at most one training job is ever submitted; it has been
\* submitted before any status query and in every state after the fit cell;
\* and no statement of the polling cell submits a job or changes the remote
\* job's phase or tensors.
OneSubmission ==
    /\ [](/\ Len(submitted) <= 1
          /\ nQueries > 0 => Len(submitted) = 1
          /\ pc \in AfterFit => Len(submitted) = 1
          /\ Len(submitted) = 0 => jobPhase = "")
    /\ [][(pc \in PollStatements /\ pc' # pc)
            => (submitted' = submitted /\ jobPhase' = jobPhase /\ store' = store)]_vars

\* C10 witness: the loop has queried a job it saw Failed, and goes on.
OneSubmissionWitness ==
    /\ pc = "poll_sleep"
    /\ description.TrainingJobStatus = "Failed"
    /\ nQueries >= 2
    /\ Len(submitted) = 1

\* C11 (RuleSpec), as claimed: the polling cell does not finish while the
\* rule-evaluation job is still running: at the step that ends the cell, the
\* rule job is not in progress.
RuleJobAwaited ==
    [][(pc \in PollStatements /\ pc' = "create_trial") => ruleStatus # "InProgress"]_vars

\* C12 (Spec): once the job is submitted, train.csv is stored under a key that
\* starts with the location of the job's train channel and validation.csv
\* under a key that starts with the location of its validation channel, and
\* of the objects in the bucket each channel's location is a prefix of its
\* own file's key only.
KeysUnderChannels ==
    LET StartsWith(cs, p) == Len(p) <= Len(cs) /\ SubSeq(cs, 1, Len(p)) = p
        under(channel) == {k \in DOMAIN s3 : StartsWith(JoinPath(k), JoinPath(channel))}
    IN  \A i \in 1..Len(submitted) :
            /\ DOMAIN s3 = {TrainKey, ValidationKey}
            /\ s3[TrainKey] = files["train.csv"]
            /\ s3[ValidationKey] = files["validation.csv"]
            /\ under(submitted[i].train) = {TrainKey}
            /\ under(submitted[i].validation) = {ValidationKey}

\* C12 witness: the job is submitted with both files uploaded and not empty.
KeysUnderChannelsWitness ==
    /\ Len(submitted) = 1
    /\ DOMAIN s3 = {TrainKey, ValidationKey}
    /\ s3[TrainKey] # <<>>
    /\ s3[ValidationKey] # <<>>

\* C13 (DataSpec): once the columns are dropped, the derived table has one row
\* per row of the input table, in the input's order and with its index; it has
\* the columns no_previous_contact (1 when the input row's pdays is 999, else
\* 0) and not_working (1 when the input row's job is student, retired or
\* unemployed, else 0), and none of duration, emp.var.rate, cons.price.idx,
\* cons.conf.idx, euribor3m, nr.employed.  Every file written has one line per
\* row of its subset; the line's values are those of the label and of the
\* derived table's feature columns, among them the two indicators of the
\* input row it comes from and none of the six columns.
DerivedTable ==
    LET six == {<<"duration", "">>, <<"emp.var.rate", "">>, <<"cons.price.idx", "">>,
                <<"cons.conf.idx", "">>, <<"euribor3m", "">>, <<"nr.employed", "">>}
        contact == <<"no_previous_contact", "">>
        working == <<"not_working", "">>
        input(index) == csv.rows[index + 1].cells
        isContact(index) == IF input(index)[<<"pdays", "">>] = 999 THEN 1 ELSE 0
        isWorking(index) ==
            IF input(index)[<<"job", "">>] \in {"student", "retired", "unemployed"}
            THEN 1 ELSE 0
        isFeature(c) == c \notin {<<"y", "yes">>, <<"y", "no">>}
        header == <<(<<"y", "yes">>)>> \o SelectSeq(model_data.columns, isFeature)
        at(c) == CHOOSE j \in 1..Len(header) : header[j] = c
        written(name, subset) ==
            name \in DOMAIN files =>
                /\ Len(files[name]) = Len(subset.rows)
                /\ \A i \in 1..Len(subset.rows) :
                      /\ Len(files[name][i]) = Len(header)
                      /\ files[name][i][at(contact)] = isContact(subset.rows[i].index)
                      /\ files[name][i][at(working)] = isWorking(subset.rows[i].index)
    IN  (model_data.columns # <<>> /\ pc # "drop") =>
            /\ Len(model_data.rows) = Len(csv.rows)
            /\ \A i \in 1..Len(csv.rows) :
                  /\ model_data.rows[i].index = csv.rows[i].index
                  /\ model_data.rows[i].cells[contact] = isContact(i - 1)
                  /\ model_data.rows[i].cells[working] = isWorking(i - 1)
            /\ {contact, working} \subseteq Range(model_data.columns)
            /\ Range(model_data.columns) \cap six = {}
            /\ Range(header) \cap six = {}
            /\ written("train.csv", train_data)
            /\ written("validation.csv", validation_data)

\* C13 witness: both files are written, the train file from a row without
\* previous contact whose job counts as not working, next to a row of the
\* other kind.
DerivedTableWitness ==
    /\ DOMAIN files = {"train.csv", "validation.csv"}
    /\ files["validation.csv"] # <<>>
    /\ \E i, j \in 1..Len(train_data.rows) :
          /\ train_data.rows[i].cells[<<"no_previous_contact", "">>] = 1
          /\ train_data.rows[i].cells[<<"not_working", "">>] = 1
          /\ train_data.rows[j].cells[<<"no_previous_contact", "">>] = 0
          /\ train_data.rows[j].cells[<<"not_working", "">>] = 0

\* C14 (RuleSpec): when a status query of the polling cell raises, the run
\* stops in that step with the error set, and the query changes neither the
\* description nor the counts of queries and sleeps; a stopped run keeps its
\* error and runs no statement: no query, no sleep, no trial, no figure.
QueryFailureStops ==
    /\ [](error # "" => pc = "halted")
    /\ [][(pc \in {"poll_first", "poll_query"} /\ error' # error)
            => (/\ pc' = "halted"
                /\ description' = description
                /\ nQueries' = nQueries
                /\ nSleeps' = nSleeps)]_vars
    /\ [][pc = "halted"
            => (/\ pc' = pc
                /\ error' = error
                /\ description' = description
                /\ nQueries' = nQueries
                /\ nSleeps' = nSleeps
                /\ submitted' = submitted
                /\ trial' = trial
                /\ figures' = figures)]_vars

\* C14 witness: a query inside the loop raised, after a query and a sleep.
QueryFailureStopsWitness ==
    /\ pc = "halted"
    /\ error = "ClientError"
    /\ nQueries >= 2
    /\ nSleeps >= 1
    /\ trial = ""

\* C15 (HelperSpec): a call plot_collection(trial, collection, regex) renders
\* one figure whose lines are labelled with exactly the tensor names of the
\* collection that the regex matches from the start of the name (for the
\* regexes tried: every name for ".*", the names that start with the
\* regex's text for the others), each name once, in ascending order; with
\* ".*" every tensor of the collection is plotted.
PlotsExactlyMatches ==
    [][(/\ Len(calls') > Len(calls)
        /\ calls'[Len(calls')].fn = "plot_collection")
       => LET collection == calls'[Len(calls')].args[1]
              regex == calls'[Len(calls')].args[2]
              StartsWith(cs, p) == Len(p) <= Len(cs) /\ SubSeq(cs, 1, Len(p)) = p
              wanted == {n \in Collections[collection] \cap DOMAIN store :
                           regex = ".*" \/ StartsWith(Chars(n), Chars(regex))}
              lines == figures'[Len(figures')].lines
          IN  /\ Len(figures') = Len(figures) + 1
              /\ {lines[i].label : i \in 1..Len(lines)} = wanted
              /\ Len(lines) = Cardinality(wanted)
              /\ \A i \in 1..(Len(lines) - 1) :
                     CharsLess(Chars(lines[i].label), Chars(lines[i + 1].label))
              /\ regex = ".*" =>
                     Len(lines) = Cardinality(Collections[collection] \cap DOMAIN store)]_vars

\* C15 witness: plot_collection was called on the metrics collection with
\* a regex that matches one of its two saved tensors, and with the default
\* regex, which plotted both.
PlotsExactlyMatchesWitness ==
    /\ Len(calls) = 2
    /\ Len(figures) = 2
    /\ calls[1] = [fn |-> "plot_collection", args |-> <<"metrics", "train">>, raised |-> ""]
    /\ calls[2] = [fn |-> "plot_collection", args |-> <<"metrics", ".*">>, raised |-> ""]
    /\ Len(figures[1].lines) = 1
    /\ Len(figures[2].lines) = 2

\* C16 (HelperSpec): a call get_data(trial, tname) on a tensor of the trial
\* returns two sequences of equal length: the tensor's saved steps in the
\* trial's order, and at each position the value saved at that step; it calls
\* tensor(), steps() and value() once per saved step, and nothing else.
GetDataReturnsSaved ==
    [][(/\ Len(calls') > Len(calls)
        /\ calls'[Len(calls')].fn = "get_data"
        /\ calls'[Len(calls')].raised = "")
       => LET saved == store[calls'[Len(calls')].args[1]]
              steps == returned'[1]
              vals == returned'[2]
          IN  /\ Len(returned') = 2
              /\ Len(steps) = Len(vals)
              /\ Len(steps) = Len(saved)
              /\ \A i \in 1..Len(saved) :
                     /\ steps[i] = saved[i].step
                     /\ vals[i] = saved[i].value
              /\ trialReads' = trialReads + 2 + Len(saved)]_vars

\* C16 witness: get_data returned two steps whose values differ.
GetDataReturnsSavedWitness ==
    /\ Len(calls) >= 1
    /\ calls[Len(calls)].fn = "get_data"
    /\ calls[Len(calls)].raised = ""
    /\ Len(returned) = 2
    /\ Len(returned[1]) = 2
    /\ returned[2][1] # returned[2][2]

\* C17 (HelperSpec): a call plot_feature_importance(trial, type) with one of
\* the five supported types renders one figure whose lines are labelled with
\* exactly the saved tensor names of the feature_importance collection that
\* start with "feature_importance/<type>/"; for gain none is a total_gain
\* tensor and for cover none is a total_cover tensor.
ImportancePlotsOwnType ==
    [][(/\ Len(calls') > Len(calls)
        /\ calls'[Len(calls')].fn = "plot_feature_importance"
        /\ calls'[Len(calls')].args[1]
              \in {"weight", "gain", "cover", "total_gain", "total_cover"})
       => LET type == calls'[Len(calls')].args[1]
              start == Chars("feature_importance/") \o Chars(type) \o <<"/">>
              StartsWith(cs, p) == Len(p) <= Len(cs) /\ SubSeq(cs, 1, Len(p)) = p
              wanted == {n \in Collections["feature_importance"] \cap DOMAIN store :
                           StartsWith(Chars(n), start)}
              lines == figures'[Len(figures')].lines
              labels == {lines[i].label : i \in 1..Len(lines)}
          IN  /\ calls'[Len(calls')].raised = ""
              /\ Len(figures') = Len(figures) + 1
              /\ labels = wanted
              /\ Len(lines) = Cardinality(wanted)
              /\ type = "gain" => "feature_importance/total_gain/f0" \notin labels
              /\ type = "cover" => "feature_importance/total_cover/f0" \notin labels]_vars

\* C17 witness: gain was plotted from a trial that holds the gain and the
\* total_gain tensors, and the figure has the gain tensor's line.
ImportancePlotsOwnTypeWitness ==
    /\ {"feature_importance/gain/f0", "feature_importance/total_gain/f0"}
          \subseteq DOMAIN store
    /\ Len(calls) >= 1
    /\ calls[Len(calls)] = [fn |-> "plot_feature_importance", args |-> <<"gain">>,
                            raised |-> ""]
    /\ Len(figures) >= 1
    /\ Len(figures[Len(figures)].lines) = 1
    /\ figures[Len(figures)].lines[1].label = "feature_importance/gain/f0"

\* C18 (RuleSpec): while the cell has made its first query only and that
\* query reported TrainingJobStatus Completed, no step of the cell queries
\* or sleeps; no query or sleep is made once the cell has ended; and the
\* loop body is about to run only when the last fetched SecondaryStatus is
\* neither Training nor Completed.
FirstQueryCompleted ==
    /\ [][(/\ pc \in PollStatements
            /\ nQueries = 1
            /\ description.TrainingJobStatus = "Completed")
           => (nSleeps = 0 /\ nQueries' = nQueries /\ nSleeps' = nSleeps)]_vars
    /\ [][pc \notin PollStatements => (nQueries' = nQueries /\ nSleeps' = nSleeps)]_vars
    /\ [](pc = "poll_query" => description.SecondaryStatus \notin {"Training", "Completed"})

\* C18 witness: the cell ended after a single query, which reported Completed.
FirstQueryCompletedWitness ==
    /\ pc = "create_trial"
    /\ nQueries = 1
    /\ nSleeps = 0
    /\ description.TrainingJobStatus = "Completed"

\* C19 (RuleSpec): in the loop a query that returns is followed by the sleep
\* statement, which sleeps once and leads to the test of the loop, so that at
\* the test the cell has slept once per query of the loop (counted below
\* MaxCount); the test decides on the description the last query fetched,
\* which nothing but a query changes; and once a fetched description has
\* SecondaryStatus Training or Completed, the cell makes no further query.
QueryThenOneSleep ==
    /\ [][(pc = "poll_query" /\ pc' # pc /\ error' = error)
            => (pc' = "poll_sleep" /\ nSleeps' = nSleeps)]_vars
    /\ [][(pc = "poll_sleep" /\ pc' # pc)
            => (/\ pc' = "poll_while"
                /\ nSleeps' = IF nSleeps < MaxCount THEN nSleeps + 1 ELSE nSleeps
                /\ nQueries' = nQueries
                /\ description' = description)]_vars
    /\ [](pc = "poll_while" /\ nQueries < MaxCount => nSleeps = nQueries - 1)
    /\ [][(pc = "poll_while" /\ pc' # pc)
            => pc' = IF description.SecondaryStatus \in {"Training", "Completed"}
                     THEN "create_trial" ELSE "poll_query"]_vars
    /\ [][description' # description
            => pc \in {"poll_first", "poll_query", "create_trial"}]_vars
    /\ [][(/\ pc \in PollStatements
            /\ description.SecondaryStatus \in {"Training", "Completed"})
           => (/\ description' = description
               /\ nQueries' = nQueries
               /\ pc' # "poll_query")]_vars

\* C19 witness: the loop ran its body once (a second query, one sleep), the
\* query returned Training, and the cell ended.
QueryThenOneSleepWitness ==
    /\ pc = "create_trial"
    /\ nQueries = 2
    /\ nSleeps = 1
    /\ description.SecondaryStatus = "Training"

====
